---- MODULE Spec2Model ----
(***************************************************************************)
(* denormalizr: schema-driven reconstruction of nested object graphs from  *)
(* a normalized entity store (src/src/index.js), in its non-memoized and   *)
(* its memoized mode.                                                       *)
(*                                                                          *)
(* JavaScript objects live in `heap`, a sequence of cells; a reference is   *)
(* the index of a cell, so `===` on objects is equality of indices and a   *)
(* write through one reference is seen through every other.  A top-level   *)
(* denormalize call is one action; its recursion is computed by the        *)
(* RECURSIVE operators below, which thread the mutable state of the call   *)
(* (heap, bag, visitation set, cache, error flags) through a record.       *)
(***************************************************************************)
EXTENDS Integers, Sequences, FiniteSets, TLC

\* ---------------------------------------------------------------- bounds
\* Identifiers of the one entity type are 1..NumIds.
NumIds == 4
\* Operations (calls and store updates) in one behaviour.
MaxOps == 3
\* Store updates among them.
MaxUpdates == 1

Ids == 1..NumIds

\* Nesting of denormalize/denormalizeMemoized frames the call stack is given.
\* Every entity frame adds one identifier to the bag (or the visitation set)
\* and is followed by at most one collection frame, and the innermost frame
\* is a guarded re-entry or a fallback: a guarded recursion needs at most
\* 2 * NumIds + 1 frames.
DepthBudget == 2 * NumIds + 2

\* ---------------------------------------------------------------- values
\* A JavaScript value: undefined, null, an identifier, a string naming a
\* schema (the discriminant of a union value) or an object reference.
Undef == [t |-> "undef", v |-> 0]
Null == [t |-> "null", v |-> 0]
IdV(i) == [t |-> "id", v |-> i]
Ref(r) == [t |-> "ref", v |-> r]
Str(n) == [t |-> "str", v |-> n]

\* The discriminants a union value carries: 'users', the key of the User
\* schema in the union, and 'ghosts', a key the union does not define.
DiscUsers == Str(1)
DiscGhosts == Str(2)

\* typeof x === 'undefined'
isUndefined(x) == x.t = "undef"
\* lodash isObject
isObject(x) == x.t = "ref"

\* Attributes an object of the model can carry; an absent attribute reads
\* undefined.
Attrs == {"id", "p", "q", "l", "schema", "_r"}
NoAttrs == [a \in Attrs |-> Undef]

\* A heap cell: a plain object (attribute map f) or an array (elements e).
ObjCell(f) == [arr |-> FALSE, f |-> f, e |-> <<>>]
ArrCell(e) == [arr |-> TRUE, f |-> NoAttrs, e |-> e]

\* --------------------------------------------------------------- schemas
\* const User = new schema.Entity('users'); User.define({p: User, q: User,
\* l: [User], _r: User}).  "None" stands for a schema that is not an object.
\* UserList = [User], UserValues = new schema.Values(User),
\* UserUnion = new schema.Union({users: User}, 'schema'), and
\* Plain = {p: User, q: User, l: [User]}, a plain mapping.
SchemaNames == {"User", "UserList", "UserValues", "UserUnion", "Plain", "None"}

\* A dispatch that takes a plain mapping for an entity schema.
SchemaKindNoPlain(schema) ==
  CASE schema \in {"User", "Plain"} -> "entity"
    [] schema = "UserList" -> "array"
    [] schema = "UserValues" -> "values"
    [] schema = "UserUnion" -> "union"
    [] OTHER -> "nonobject"

\* schema instanceof EntitySchema / ValuesSchema / ArraySchema /
\* Array.isArray(schema) / UnionSchema; "plain": any other object.
SchemaKind(schema) ==
  CASE schema = "User" -> "entity"
    [] schema = "UserList" -> "array"
    [] schema = "UserValues" -> "values"
    [] schema = "UserUnion" -> "union"
    [] schema = "Plain" -> "plain"
    [] OTHER -> "nonobject"

\* Object.keys(schemaDefinition), in definition order.
schemaKeys(schema) ==
  CASE schema = "User" -> <<"p", "q", "l", "_r">>
    [] schema = "Plain" -> <<"p", "q", "l">>
    [] OTHER -> <<>>

\* A union in which every value finds a child schema.
unionItemSchemaAny(schema, schemaAttribute) == "User"

\* getIn(schema, ['schema', schemaAttribute]) of the union: the child schema
\* of that key ("None": undefined).
unionItemSchema(schema, schemaAttribute) ==
  IF schemaAttribute = DiscUsers THEN "User" ELSE "None"

\* getIn(schemaDefinition, [attribute])
attributeSchema(schema, attribute) ==
  IF attribute = "l" THEN "UserList" ELSE "User"

\* Array.isArray(schema) ? schema[0] : schema.schema
itemSchemaOf(schema) == "User"

\* ----------------------------------------------------------------- state
VARIABLES
  store,   \* entities: [table: is entities.users defined, ent: id -> raw entity]
  heap,    \* the objects allocated so far
  cache,   \* the module-level memoization cache: id -> cell
  hist     \* the operations performed, oldest first

vars == <<store, heap, cache, hist>>

\* The call-scoped state a recursion threads: the heap, the bag of the
\* non-memoized path (key 0 is the property name "undefined"), the
\* `key:id` marks of the memoized path, the cache, a raised error and an
\* exhausted call stack.  error names the exception raised.  The other
\* fields only record what the call did: cuts, the (id, returned value) of
\* every re-entrant memoized reconstruction; fromRaw, the ids whose reference
\* object was the raw entity itself; built, the bag keys in the order their
\* working copies were made by the non-memoized path; stack, the ids of the
\* memoized reconstructions in progress, innermost last; log, kept by the
\* calls that are recording, one record for every memoized reconstruction
\* that ran to its return, in the order of the returns.
BagKeys == 0..NumIds
EmptyBag == [k \in BagKeys |-> Undef]
NoCell == [has |-> FALSE, entity |-> Undef, denormalized |-> Undef]

CallState(h, c) ==
  [heap |-> h, bag |-> EmptyBag, visited |-> {}, cache |-> c,
   err |-> FALSE, over |-> FALSE, cuts |-> {}, fromRaw |-> {},
   error |-> "", built |-> <<>>, stack |-> <<>>, recording |-> FALSE,
   log |-> <<>>]

\* throw: the call ends in an error state.
throw(s, name) == [s EXCEPT !.err = TRUE, !.error = name]

Ret(v, s) == [v |-> v, s |-> s]

\* Allocation of a new object: a reference no other object has.
alloc(s, cell) ==
  Ret(Ref(Len(s.heap) + 1), [s EXCEPT !.heap = Append(s.heap, cell)])

\* The property name an identifier indexes with ("undefined", "null": 0).
keyOf(id) == IF id.t = "id" THEN id.v ELSE 0

\* ------------------------------------------------------------ containers
\* getIn(object, [attribute]) on a plain value: object[attribute].
getIn(h, object, attribute) ==
  IF isObject(object) THEN h[object.v].f[attribute] ELSE Undef

\* A setIn whose write is lost.
setInLost(s, object, attribute, value) == s

\* setIn(object, [attribute], value) on a plain object: the write goes to the
\* object itself (location[lastKey] = value), and the object is returned.
setIn(s, object, attribute, value) ==
  [s EXCEPT !.heap[object.v].f[attribute] = value]

\* getIn(entities, [key, id]): entities[key][id].  Reading [id] of an
\* entities[key] that is undefined raises a TypeError.
getInEntities(entities, id) ==
  IF ~entities.table THEN [v |-> Undef, err |-> TRUE]
  ELSE IF id.t = "id" /\ id.v \in Ids THEN [v |-> entities.ent[id.v], err |-> FALSE]
  ELSE [v |-> Undef, err |-> FALSE]

\* schema.getId(entity) || getIn(entity, ['id'])
getId(h, entity) == getIn(h, entity, "id")

\* lodash merge({}, source): a deep copy of plain objects and arrays.
AttrSeq == <<"id", "p", "q", "l", "schema", "_r">>

RECURSIVE cloneValue(_, _), cloneElems(_, _, _), cloneAttrs(_, _, _, _)

\* A merge that hands back its source.
cloneValueShared(x, s) == Ret(x, s)

cloneValue(x, s) ==
  IF ~isObject(x) THEN Ret(x, s)
  ELSE LET cell == s.heap[x.v] IN
       IF cell.arr
       THEN LET r == cloneElems(cell.e, <<>>, s) IN alloc(r.s, ArrCell(r.v))
       ELSE LET r == cloneAttrs(cell.f, AttrSeq, NoAttrs, s) IN alloc(r.s, ObjCell(r.v))

cloneElems(elems, done, s) ==
  IF elems = <<>> THEN Ret(done, s)
  ELSE LET r == cloneValue(Head(elems), s)
       IN cloneElems(Tail(elems), Append(done, r.v), r.s)

cloneAttrs(f, attrs, done, s) ==
  IF attrs = <<>> THEN Ret(done, s)
  ELSE LET a == Head(attrs)
           r == cloneValue(f[a], s)
       IN cloneAttrs(f, Tail(attrs), [done EXCEPT ![a] = r.v], r.s)

\* merge({}, entity): entity undefined (or not an object) leaves the {}.
merge(entity, s) ==
  IF isObject(entity) /\ ~s.heap[entity.v].arr THEN cloneValue(entity, s)
  ELSE alloc(s, ObjCell(NoAttrs))

\* ---------------------------------------------------------- the resolver
\* A resolver that takes an object passed in for the identifier itself.
resolveEntityOrIdAsId(entityOrId, entities, h) ==
  LET found == getInEntities(entities, entityOrId)
  IN [entity |-> found.v, id |-> entityOrId, err |-> found.err]

\* resolveEntityOrId: { entity, id } (err: the store lookup raised).
resolveEntityOrId(entityOrId, entities, h) ==
  LET id == IF isObject(entityOrId) THEN getId(h, entityOrId) ELSE entityOrId
      found == getInEntities(entities, id)
  IN [entity |-> found.v, id |-> id, err |-> found.err]

\* An exception is unwinding the call: a raised error or an exhausted stack.
thrown(s) == s.err \/ s.over

\* obj === null || typeof obj === 'undefined' || !isObject(schema)
isFallback(obj, schema) ==
  obj.t = "null" \/ obj.t = "undef" \/ SchemaKind(schema) = "nonobject"

\* ------------------------------------------------- the non-memoized path
RECURSIVE denormalize(_, _, _, _, _), denormalizeEntity(_, _, _, _, _),
          denormalizeObject(_, _, _, _, _), forEachAttribute(_, _, _, _, _, _),
          denormalizeIterable(_, _, _, _, _), mapItems(_, _, _, _, _, _),
          forEachKey(_, _, _, _, _, _, _), denormalizeUnion(_, _, _, _, _)

\* A map that puts each value computed in front of the ones before it.
mapResultFront(done, v) == <<v>> \o done

\* items.map(f): the value computed for element i is element i of the result.
mapResult(done, v) == Append(done, v)

\* bag[key].hasOwnProperty(id)
bagHas(bag, k) == ~isUndefined(bag[k])

\* A copy that is no copy: the raw entity itself is worked on.
workingCopyShared(entity, s) ==
  IF isObject(entity) THEN Ret(entity, s) ELSE merge(entity, s)

\* const obj = isImmutable(entity) ? entity : merge({}, entity)
workingCopy(entity, s) == merge(entity, s)

\* The bag holding null, not the working copy, while the attributes are
\* recursed into.
setBagNull(bag, k, obj) == [bag EXCEPT ![k] = Null]

\* bag[key][id] = obj, set first so that a reference to the entity from
\* within the call to denormalizeObject finds it.
setBagFirst(bag, k, obj) == [bag EXCEPT ![k] = obj]

\* A bag that forgets the entity once its attributes are done.
setBagGone(bag, k, obj) == [bag EXCEPT ![k] = Undef]

\* bag[key][id] = denormalizeObject(obj, entities, schema, bag)
setBagResult(bag, k, obj) == [bag EXCEPT ![k] = obj]

denormalizeEntity(entityOrId, entities, schema, s, d) ==
  LET r == resolveEntityOrId(entityOrId, entities, s.heap)
      k == keyOf(r.id)
  IN IF r.err THEN Ret(Undef, throw(s, "TypeError"))
     ELSE IF ~bagHas(s.bag, k)
     THEN LET obj == workingCopy(r.entity, s)
              s1 == [obj.s EXCEPT !.bag = setBagFirst(obj.s.bag, k, obj.v),
                                  !.built = Append(obj.s.built, k)]
              o == denormalizeObject(obj.v, entities, schema, s1, d)
          IN IF thrown(o.s) THEN Ret(Undef, o.s)
             ELSE Ret(o.v, [o.s EXCEPT !.bag = setBagResult(o.s.bag, k, o.v)])
     ELSE Ret(s.bag[k], s)

denormalizeObject(obj, entities, schema, s, d) ==
  LET present(a) == ~isUndefined(getIn(s.heap, obj, a))
  IN forEachAttribute(obj, entities, schema, SelectSeq(schemaKeys(schema), present), s, d)

forEachAttribute(obj, entities, schema, attributes, s, d) ==
  IF attributes = <<>> THEN Ret(obj, s)
  ELSE LET attribute == Head(attributes)
           item == getIn(s.heap, obj, attribute)
           r == denormalize(item, entities, attributeSchema(schema, attribute), s, d)
       IN IF thrown(r.s) THEN Ret(Undef, r.s)
          ELSE forEachAttribute(obj, entities, schema, Tail(attributes),
                                setIn(r.s, obj, attribute, r.v), d)

\* items.map(o => denormalize(o, entities, itemSchema, bag))
mapItems(items, done, entities, itemSchema, s, d) ==
  IF items = <<>> THEN Ret(done, s)
  ELSE LET r == denormalize(Head(items), entities, itemSchema, s, d)
       IN IF thrown(r.s) THEN Ret(done, r.s)
          ELSE mapItems(Tail(items), mapResult(done, r.v), entities, itemSchema, r.s, d)

\* Object.keys(items).forEach(key => denormalized[key] = denormalize(items[key], ...))
forEachKey(f, keys, done, entities, itemSchema, s, d) ==
  IF keys = <<>> THEN Ret(done, s)
  ELSE LET key == Head(keys)
           r == denormalize(f[key], entities, itemSchema, s, d)
       IN IF thrown(r.s) THEN Ret(done, r.s)
          ELSE forEachKey(f, Tail(keys), [done EXCEPT ![key] = r.v],
                          entities, itemSchema, r.s, d)

denormalizeIterable(items, entities, schema, s, d) ==
  LET itemSchema == itemSchemaOf(schema)
      isMappable == isObject(items) /\ s.heap[items.v].arr
  IN IF isMappable
     THEN LET r == mapItems(s.heap[items.v].e, <<>>, entities, itemSchema, s, d)
          IN IF thrown(r.s) THEN Ret(Undef, r.s) ELSE alloc(r.s, ArrCell(r.v))
     ELSE LET f == IF isObject(items) THEN s.heap[items.v].f ELSE NoAttrs
              own(a) == ~isUndefined(f[a])
              r == forEachKey(f, SelectSeq(AttrSeq, own), NoAttrs,
                              entities, itemSchema, s, d)
          IN IF thrown(r.s) THEN Ret(Undef, r.s) ELSE alloc(r.s, ObjCell(r.v))

\* denormalizeUnion: a value without a discriminant the union defines is
\* returned as it is; otherwise its id is denormalized with the child schema.
denormalizeUnion(entity, entities, schema, s, d) ==
  LET schemaAttribute == getIn(s.heap, entity, "schema")
      itemSchema == unionItemSchema(schema, schemaAttribute)
  IN IF itemSchema = "None" THEN Ret(entity, s)
     ELSE denormalize(getId(s.heap, entity), entities, itemSchema, s, d)

denormalize(obj, entities, schema, s, d) ==
  IF d = 0 THEN Ret(Undef, [s EXCEPT !.over = TRUE])
  ELSE IF isFallback(obj, schema) THEN Ret(obj, s)
  ELSE IF SchemaKind(schema) = "entity"
       THEN denormalizeEntity(obj, entities, schema, s, d - 1)
  ELSE IF SchemaKind(schema) \in {"values", "array"}
       THEN denormalizeIterable(obj, entities, schema, s, d - 1)
  ELSE IF SchemaKind(schema) = "union"
       THEN denormalizeUnion(obj, entities, schema, s, d - 1)
  ELSE LET entity == merge(obj, s)
       IN denormalizeObject(entity.v, entities, schema, entity.s, d - 1)

\* ----------------------------------------------------- the memoized path
RECURSIVE denormalizeMemoized(_, _, _, _, _),
          denormalizeEntityMemoized(_, _, _, _, _),
          forEachRelation(_, _, _, _, _, _, _),
          denormalizeIterableMemoized(_, _, _, _, _),
          mapItemsMemoized(_, _, _, _, _, _, _)

\* The guard without its test for undefined.
isFallbackNoUndefined(obj, schema) ==
  obj.t = "null" \/ SchemaKind(schema) = "nonobject"

\* obj === null || typeof obj === 'undefined' || !isObject(schema)
isFallbackMemoized(obj, schema) ==
  obj.t = "null" \/ obj.t = "undef" \/ SchemaKind(schema) = "nonobject"

\* if (!cache[key][id]) cache[key][id] = { entity, denormalized: entity }
ensureCell(c, k, entity) ==
  IF c[k].has THEN c
  ELSE [c EXCEPT ![k] = [has |-> TRUE, entity |-> entity, denormalized |-> entity]]

\* A visitation set that is never consulted.
visitedNever(visited, k) == FALSE

\* bag.hasOwnProperty(`${key}:${id}`)
visitedHas(visited, k) == k \in visited

\* bag[`${key}:${id}`] = true
mark(visited, k) == visited \cup {k}

\* A reconstruction that leaves its mark behind.
unmarkNever(visited, k) == visited

\* delete bag[`${key}:${id}`]
unmark(visited, k) == visited \ {k}

\* A cache that keeps what it holds when the raw entity is another object.
wipeNever(c, k, entity) == c

\* if (cache[key][id].entity !== entity) { ...entity = entity; ...denormalized = entity }
wipeIfDifferent(c, k, entity) ==
  IF c[k].entity # entity
  THEN [c EXCEPT ![k].entity = entity, ![k].denormalized = entity]
  ELSE c

\* A re-entrant reconstruction that returns null in place of the identifier.
cycleValueNull(id) == Null

\* The value a re-entrant reconstruction returns: `return id`.
cycleValue(id) == id

\* A filter that lets every attribute through.
isPrivateNever(attribute) == FALSE

\* .filter(attribute => attribute.substring(0, 1) !== '_')
isPrivate(attribute) == SubSeq(attribute, 1, 1) = "_"

\* An assign that writes the relations into the reference object itself.
assignInPlace(s, referenceObject, relationsToUpdate) ==
  Ret(referenceObject,
      [s EXCEPT !.heap[referenceObject.v].f =
         [a \in Attrs |-> IF isUndefined(relationsToUpdate[a])
                          THEN s.heap[referenceObject.v].f[a]
                          ELSE relationsToUpdate[a]]])

\* assign({}, returnObject, relationsToUpdate): a new object, the reference
\* object's attributes overwritten by the updated relations.
assign(s, referenceObject, relationsToUpdate) ==
  alloc(s, ObjCell([a \in Attrs |->
                      IF isUndefined(relationsToUpdate[a])
                      THEN s.heap[referenceObject.v].f[a]
                      ELSE relationsToUpdate[a]]))

\* The forEach over the relations: relationsToUpdate collects the relations
\* whose reconstruction differs (!==) from the reference object's value.
forEachRelation(referenceObject, entities, schema, relations, relationsToUpdate, s, d) ==
  IF relations = <<>> THEN Ret(relationsToUpdate, s)
  ELSE LET relation == Head(relations)
           item == getIn(s.heap, referenceObject, relation)
           r == denormalizeMemoized(item, entities, attributeSchema(schema, relation), s, d)
       IN IF thrown(r.s) THEN Ret(relationsToUpdate, r.s)
          ELSE forEachRelation(referenceObject, entities, schema, Tail(relations),
                 IF r.v # item THEN [relationsToUpdate EXCEPT ![relation] = r.v]
                 ELSE relationsToUpdate,
                 r.s, d)

\* cache[key][id].denormalized = returnObject; delete bag[`${key}:${id}`];
\* return returnObject.  o: the object to return and the state it was made
\* in.  A recording call adds the record of the reconstruction.  entity:
\* the raw entity resolved; held, seeded, start: the cache cell on entry,
\* after lines 211-219 and after lines 226-229; reference, referenceF: the
\* reference object and its attributes; updates: relationsToUpdate; result,
\* resultF: the value returned and its attributes; isNew: it was allocated
\* by line 255 (before: the objects there were before it); current, cell:
\* the cache cell before and after line 259; marksIn, stackIn: the marks
\* and the reconstructions in progress after line 223; marksOut, stackOut:
\* the same after line 261.
updateCache(k, o, entity, held, seeded, sw, updates, before) ==
  LET sf == [o.s EXCEPT !.cache[k].denormalized = o.v,
                        !.visited = unmark(o.s.visited, k),
                        !.stack = SubSeq(o.s.stack, 1, Len(o.s.stack) - 1)]
      reference == sw.cache[k].denormalized
  IN Ret(o.v,
         IF ~sf.recording THEN sf
         ELSE [sf EXCEPT !.log = Append(sf.log,
                [id |-> k, entity |-> entity, held |-> held, seeded |-> seeded,
                 start |-> sw.cache[k],
                 reference |-> reference,
                 referenceF |-> sw.heap[reference.v].f,
                 updates |-> updates,
                 result |-> o.v, resultF |-> o.s.heap[o.v.v].f,
                 isNew |-> o.v.v > before,
                 current |-> o.s.cache[k], cell |-> sf.cache[k],
                 marksIn |-> sw.visited, stackIn |-> sw.stack,
                 marksOut |-> sf.visited, stackOut |-> sf.stack])])

denormalizeEntityMemoized(entityOrId, entities, schema, s, d) ==
  LET r == resolveEntityOrId(entityOrId, entities, s.heap)
      k == keyOf(r.id)
  IN IF r.err THEN Ret(Undef, throw(s, "TypeError"))
     ELSE IF ~isObject(r.entity) THEN Ret(Null, s)
     ELSE LET s0 == [s EXCEPT !.cache = ensureCell(s.cache, k, r.entity)]
          IN IF ~visitedHas(s0.visited, k)
             THEN LET sw == [s0 EXCEPT !.visited = mark(s0.visited, k),
                                       !.cache = wipeIfDifferent(s0.cache, k, r.entity),
                                       !.stack = Append(s0.stack, k)]
                      referenceObject == sw.cache[k].denormalized
                      s1 == IF referenceObject = r.entity
                            THEN [sw EXCEPT !.fromRaw = sw.fromRaw \cup {k}]
                            ELSE sw
                      present(a) == /\ ~isPrivate(a)
                                    /\ ~isUndefined(getIn(s1.heap, referenceObject, a))
                      u == forEachRelation(referenceObject, entities, schema,
                                           SelectSeq(schemaKeys(schema), present),
                                           NoAttrs, s1, d)
                      changed == \E a \in Attrs : ~isUndefined(u.v[a])
                      o == IF changed THEN assign(u.s, referenceObject, u.v)
                           ELSE Ret(referenceObject, u.s)
                  IN IF thrown(u.s) THEN Ret(Undef, u.s)
                     ELSE updateCache(k, o, r.entity, s.cache[k], s0.cache[k],
                                      sw, u.v, Len(u.s.heap))
             ELSE LET v == cycleValue(r.id)
                  IN Ret(v, [s0 EXCEPT !.cuts = s0.cuts \cup {[id |-> k, v |-> v]}])

\* items.map((o, i) => ...): the new items and whether one differs (!==).
mapItemsMemoized(items, done, isDifferent, entities, itemSchema, s, d) ==
  IF items = <<>> THEN Ret([newItems |-> done, isDifferent |-> isDifferent], s)
  ELSE LET r == denormalizeMemoized(Head(items), entities, itemSchema, s, d)
       IN IF thrown(r.s) THEN Ret([newItems |-> done, isDifferent |-> isDifferent], r.s)
          ELSE mapItemsMemoized(Tail(items), mapResult(done, r.v),
                                isDifferent \/ r.v # Head(items),
                                entities, itemSchema, r.s, d)

\* items.map of a value that is no array is not a function: a TypeError.
denormalizeIterableMemoized(items, entities, schema, s, d) ==
  IF ~(isObject(items) /\ s.heap[items.v].arr) THEN Ret(Undef, throw(s, "TypeError"))
  ELSE LET r == mapItemsMemoized(s.heap[items.v].e, <<>>, FALSE, entities,
                                 itemSchemaOf(schema), s, d)
       IN IF thrown(r.s) THEN Ret(Undef, r.s)
          ELSE IF r.v.isDifferent THEN alloc(r.s, ArrCell(r.v.newItems))
          ELSE Ret(items, r.s)

\* A test for the schema key that lets every value pass.
hasNoSchemaKeyNever(h, entity) == FALSE

\* if (!entity.schema): undefined, null and the like.
hasNoSchemaKey(h, entity) == getIn(h, entity, "schema").t \in {"undef", "null"}

\* denormalizeUnionMemoized: an Error for a value without `schema` key; past
\* that test the function reads `schema`, a name that is bound nowhere in
\* its scope (its parameter is unionSchema): a ReferenceError.
denormalizeUnionMemoized(entity, entities, unionSchema, s, d) ==
  IF hasNoSchemaKey(s.heap, entity) THEN Ret(Undef, throw(s, "Error"))
  ELSE Ret(Undef, throw(s, "ReferenceError"))

denormalizeMemoized(obj, entities, schema, s, d) ==
  IF d = 0 THEN Ret(Undef, [s EXCEPT !.over = TRUE])
  ELSE IF isFallbackMemoized(obj, schema) THEN Ret(obj, s)
  ELSE IF SchemaKind(schema) = "entity"
       THEN denormalizeEntityMemoized(obj, entities, schema, s, d - 1)
  ELSE IF SchemaKind(schema) \in {"values", "array"}
       THEN denormalizeIterableMemoized(obj, entities, schema, s, d - 1)
  ELSE IF SchemaKind(schema) = "union"
       THEN denormalizeUnionMemoized(obj, entities, schema, s, d - 1)
  ELSE Ret(obj, s)

\* ------------------------------------------------------- the entity store
\* A raw entity as normalizr leaves it: its id, the identifiers of its
\* relations p and q (0: attribute absent) and, with hasL, the array l of
\* identifiers.
RawDesc(on, p, q, hasL, l) == [on |-> on, p |-> p, q |-> q, hasL |-> hasL, l |-> l]
Absent == RawDesc(FALSE, 0, 0, FALSE, <<>>)

\* The stores a behaviour starts from.
\*  "osc":     1 -> 4 and 1 -> [2, 3], with 2 <-> 3 a cycle reached twice
\*  "cyc":     1 <-> 2, 2 -> 3, 3 -> 3, 2 -> [4, 1], and no entity 4
\*  "notable": entities = {} (no `users` table at all)
\*  "dag":     1 -> 2, 1 -> 3, 1 -> [3, 2], 2 -> 4, 3 -> 4, 3 -> [4]: acyclic
\*  "hole":    the same with no entity 4 yet
\*  "priv":    1 -> 2, 2 -> 3, the private relations 1 -> 4, 2 -> 1, and
\*             no entity 3 yet
Scenarios == {"osc", "cyc", "notable"}

ScenarioBase(sc) ==
  CASE sc = "osc" ->
         <<RawDesc(TRUE, 4, 0, TRUE, <<2, 3>>), RawDesc(TRUE, 3, 0, FALSE, <<>>),
           RawDesc(TRUE, 2, 0, FALSE, <<>>), RawDesc(TRUE, 0, 0, FALSE, <<>>)>>
    [] sc = "cyc" ->
         <<RawDesc(TRUE, 2, 0, FALSE, <<>>), RawDesc(TRUE, 1, 3, TRUE, <<4, 1>>),
           RawDesc(TRUE, 0, 3, FALSE, <<>>)>>
    [] sc = "dag" ->
         <<RawDesc(TRUE, 2, 3, TRUE, <<3, 2>>), RawDesc(TRUE, 4, 0, FALSE, <<>>),
           RawDesc(TRUE, 4, 0, TRUE, <<4>>), RawDesc(TRUE, 0, 0, FALSE, <<>>)>>
    [] sc = "hole" ->
         <<RawDesc(TRUE, 2, 3, TRUE, <<3, 2>>), RawDesc(TRUE, 4, 0, FALSE, <<>>),
           RawDesc(TRUE, 4, 0, TRUE, <<4>>)>>
    [] sc = "priv" ->
         <<RawDesc(TRUE, 2, 0, FALSE, <<>>), RawDesc(TRUE, 0, 3, FALSE, <<>>),
           RawDesc(FALSE, 0, 0, FALSE, <<>>), RawDesc(TRUE, 0, 0, FALSE, <<>>)>>
    [] OTHER -> <<>>

\* The identifier a raw entity holds in its private relation _r (0: none).
ScenarioPrivate(sc, i) ==
  IF sc = "priv" /\ i = 1 THEN 4
  ELSE IF sc = "priv" /\ i = 2 THEN 1
  ELSE 0

ScenarioDesc(sc, i) ==
  IF i \in DOMAIN ScenarioBase(sc) THEN ScenarioBase(sc)[i] ELSE Absent

idOrUndef(n) == IF n = 0 THEN Undef ELSE IdV(n)

\* The heap holding the raw entities 1..i of a scenario: for entity j the
\* cell 2j-1 is its array l and the cell 2j the entity object (for an entity
\* the store does not hold, an object { id: j } outside the store).
RECURSIVE initialHeap(_, _)
initialHeap(sc, i) ==
  IF i = 0 THEN <<>>
  ELSE LET desc == ScenarioDesc(sc, i)
           h == initialHeap(sc, i - 1)
           arr == ArrCell([n \in DOMAIN desc.l |-> IdV(desc.l[n])])
           obj == ObjCell([a \in Attrs |->
                    CASE a = "id" -> IdV(i)
                      [] a = "p" -> idOrUndef(desc.p)
                      [] a = "q" -> idOrUndef(desc.q)
                      [] a = "l" -> IF desc.hasL THEN Ref(2 * i - 1) ELSE Undef
                      [] a = "_r" -> idOrUndef(ScenarioPrivate(sc, i))
                      [] OTHER -> Undef])
       IN h \o <<arr, obj>>

initialEntities(sc) ==
  [table |-> sc # "notable",
   ent |-> [i \in Ids |-> IF ScenarioDesc(sc, i).on THEN Ref(2 * i) ELSE Undef]]

\* ------------------------------------------------------------ operations
\* One entry of the history: what was called with what and what it returned
\* (for a store update: which identifier it touched).
CallEntry(op, input, schema, r) ==
  [op |-> op, input |-> input, schema |-> schema, id |-> 0,
   result |-> r.v, err |-> r.s.err, over |-> r.s.over,
   bag |-> {k \in BagKeys : bagHas(r.s.bag, k)}, visited |-> r.s.visited,
   cuts |-> r.s.cuts, fromRaw |-> r.s.fromRaw,
   error |-> r.s.error, built |-> r.s.built, log |-> r.s.log]

StoreEntry(op, i) ==
  [op |-> op, input |-> Undef, schema |-> "None", id |-> i,
   result |-> Undef, err |-> FALSE, over |-> FALSE, bag |-> {}, visited |-> {},
   cuts |-> {}, fromRaw |-> {}, error |-> "", built |-> <<>>, log |-> <<>>]

\* The entity-shaped value a caller passes: the object it read from the
\* store for entity 1 when the behaviour started.
HeldEntity == Ref(2 * 1)

\* What a caller passes: nothing, an identifier, or the entity object.
Inputs == {Null, Undef, HeldEntity} \cup {IdV(i) : i \in Ids}

TopSchemas(input) == IF input = IdV(1) THEN {"User", "None"} ELSE {"User"}

IsUpdate(e) == e.op \in {"replace", "remove", "add"}
CanUpdate ==
  /\ Len(hist) < MaxOps
  /\ Cardinality({n \in DOMAIN hist : IsUpdate(hist[n])}) < MaxUpdates

Init ==
  \E sc \in Scenarios :
    /\ store = initialEntities(sc)
    /\ heap = initialHeap(sc, NumIds)
    /\ cache = [i \in Ids |-> NoCell]
    /\ hist = <<>>

\* module.exports.denormalize(obj, entities, schema): a fresh bag.
Denormalize(input, schema) ==
  /\ Len(hist) < MaxOps
  /\ LET r == denormalize(input, store, schema, CallState(heap, cache), DepthBudget)
     IN /\ heap' = r.s.heap
        /\ hist' = Append(hist, CallEntry("denormalize", input, schema, r))
  /\ UNCHANGED <<store, cache>>

\* module.exports.denormalize(obj, entities, schema, {memoized: true}).
DenormalizeMemoized(input, schema) ==
  /\ Len(hist) < MaxOps
  /\ LET r == denormalizeMemoized(input, store, schema, CallState(heap, cache), DepthBudget)
     IN /\ heap' = r.s.heap
        /\ cache' = r.s.cache
        /\ hist' = Append(hist, CallEntry("memoized", input, schema, r))
  /\ UNCHANGED store

\* The owner of the store replaces the raw entity of i by a new object of
\* the same content (an immutable update).
StoreReplace(i) ==
  /\ CanUpdate
  /\ isObject(store.ent[i])
  /\ heap' = Append(heap, heap[store.ent[i].v])
  /\ store' = [store EXCEPT !.ent[i] = Ref(Len(heap) + 1)]
  /\ hist' = Append(hist, StoreEntry("replace", i))
  /\ UNCHANGED cache

\* The owner removes the raw entity of i; callers may still hold the object.
StoreRemove(i) ==
  /\ CanUpdate
  /\ isObject(store.ent[i])
  /\ store' = [store EXCEPT !.ent[i] = Undef]
  /\ hist' = Append(hist, StoreEntry("remove", i))
  /\ UNCHANGED <<heap, cache>>

\* The owner adds a raw entity for i (creating the table when there is none):
\* a new object with the content the scenario gives i.
StoreAdd(i) ==
  /\ CanUpdate
  /\ ~isObject(store.ent[i])
  /\ heap' = Append(heap, heap[2 * i])
  /\ store' = [table |-> TRUE, ent |-> [store.ent EXCEPT ![i] = Ref(Len(heap) + 1)]]
  /\ hist' = Append(hist, StoreEntry("add", i))
  /\ UNCHANGED cache

Next ==
  \/ \E input \in Inputs : \E schema \in TopSchemas(input) : Denormalize(input, schema)
  \/ \E input \in Inputs : \E schema \in TopSchemas(input) : DenormalizeMemoized(input, schema)
  \/ \E i \in Ids : StoreReplace(i)
  \/ \E i \in Ids : StoreRemove(i)
  \/ \E i \in Ids : StoreAdd(i)

Spec == Init /\ [][Next]_vars

\* The behaviours of Spec in which every call is a non-memoized one: the
\* non-memoized path reads and writes nothing of the cache.
NextNonMemoized ==
  \/ \E input \in Inputs : \E schema \in TopSchemas(input) : Denormalize(input, schema)
  \/ \E i \in Ids : StoreReplace(i)
  \/ \E i \in Ids : StoreRemove(i)
  \/ \E i \in Ids : StoreAdd(i)

SpecNonMemoized == Init /\ [][NextNonMemoized]_vars

\* The behaviours in which every call is a memoized one that records its
\* reconstructions, over the stores of Spec and the acyclic store "dag",
\* where entity 4 is reached along 1 -> 2 -> 4, 1 -> 3 -> 4 and 3 -> [4].
MemoizedScenarios == Scenarios \cup {"dag"}

InitMemoized ==
  \E sc \in MemoizedScenarios :
    /\ store = initialEntities(sc)
    /\ heap = initialHeap(sc, NumIds)
    /\ cache = [i \in Ids |-> NoCell]
    /\ hist = <<>>

\* module.exports.denormalize(obj, entities, schema, {memoized: true}), its
\* reconstructions recorded.
DenormalizeMemoizedRecorded(input, schema) ==
  /\ Len(hist) < MaxOps
  /\ LET r == denormalizeMemoized(input, store, schema,
                                  [CallState(heap, cache) EXCEPT !.recording = TRUE],
                                  DepthBudget)
     IN /\ heap' = r.s.heap
        /\ cache' = r.s.cache
        /\ hist' = Append(hist, CallEntry("memoized", input, schema, r))
  /\ UNCHANGED store

NextMemoized ==
  \/ \E input \in Inputs : \E schema \in TopSchemas(input) :
       DenormalizeMemoizedRecorded(input, schema)
  \/ \E i \in Ids : StoreReplace(i)
  \/ \E i \in Ids : StoreRemove(i)
  \/ \E i \in Ids : StoreAdd(i)

SpecMemoized == InitMemoized /\ [][NextMemoized]_vars

\* The behaviours of both modes over the store "priv", whose entities hold
\* identifiers in the private relation _r of the schema.
InitPrivate ==
  /\ store = initialEntities("priv")
  /\ heap = initialHeap("priv", NumIds)
  /\ cache = [i \in Ids |-> NoCell]
  /\ hist = <<>>

NextPrivate ==
  \/ \E input \in Inputs : \E schema \in TopSchemas(input) : Denormalize(input, schema)
  \/ \E input \in Inputs : \E schema \in TopSchemas(input) :
       DenormalizeMemoizedRecorded(input, schema)
  \/ \E i \in Ids : StoreReplace(i)
  \/ \E i \in Ids : StoreRemove(i)
  \/ \E i \in Ids : StoreAdd(i)

SpecPrivate == InitPrivate /\ [][NextPrivate]_vars

\* ------------------------------------- collections, unions, plain schemas
\* A second family of behaviours: the acyclic store, and callers that pass
\* collections of identifiers, union values and plain objects.  The values
\* passed are objects of the caller, allocated after the raw entities.
ShapeBase == 2 * NumIds
ArrayInput == Ref(ShapeBase + 1)      \* [3, 2, 2]
MapInput == Ref(ShapeBase + 2)        \* { p: 2, q: 3 }
UnionInput == Ref(ShapeBase + 3)      \* { id: 2, schema: 'users' }
BareInput == Ref(ShapeBase + 4)       \* { id: 2 }
GhostInput == Ref(ShapeBase + 5)      \* { id: 3, schema: 'ghosts' }
PlainInput == Ref(ShapeBase + 6)      \* { p: 2, l: [3, 2, 2] }

ShapeCells ==
  << ArrCell(<<IdV(3), IdV(2), IdV(2)>>),
     ObjCell([NoAttrs EXCEPT !["p"] = IdV(2), !["q"] = IdV(3)]),
     ObjCell([NoAttrs EXCEPT !["id"] = IdV(2), !["schema"] = DiscUsers]),
     ObjCell([NoAttrs EXCEPT !["id"] = IdV(2)]),
     ObjCell([NoAttrs EXCEPT !["id"] = IdV(3), !["schema"] = DiscGhosts]),
     ObjCell([NoAttrs EXCEPT !["p"] = IdV(2), !["l"] = ArrayInput]) >>

\* What a caller passes, with the schema it passes it with.
ShapeCalls ==
  { <<IdV(1), "User">>, <<ArrayInput, "UserList">>, <<MapInput, "UserValues">>,
    <<UnionInput, "UserUnion">>, <<BareInput, "UserUnion">>,
    <<GhostInput, "UserUnion">>, <<IdV(2), "UserUnion">>, <<PlainInput, "Plain">> }

\* The entity the owner of the store adds, removes or replaces.
ShapeHole == {4}

InitShapes ==
  \E sc \in {"dag", "hole"} :
    /\ store = initialEntities(sc)
    /\ heap = initialHeap(sc, NumIds) \o ShapeCells
    /\ cache = [i \in Ids |-> NoCell]
    /\ hist = <<>>

\* The caller passes what the last non-memoized call returned, with the same
\* schema: denormalize(denormalize(v, entities, schema), entities, schema).
DenormalizeAgain ==
  /\ Len(hist) > 0
  /\ hist[Len(hist)].op = "denormalize"
  /\ ~hist[Len(hist)].err /\ ~hist[Len(hist)].over
  /\ Denormalize(hist[Len(hist)].result, hist[Len(hist)].schema)

NextShapes ==
  \/ \E c \in ShapeCalls : Denormalize(c[1], c[2])
  \/ \E c \in ShapeCalls : DenormalizeMemoized(c[1], c[2])
  \/ DenormalizeAgain
  \/ \E i \in ShapeHole : StoreReplace(i)
  \/ \E i \in ShapeHole : StoreRemove(i)
  \/ \E i \in ShapeHole : StoreAdd(i)

SpecShapes == InitShapes /\ [][NextShapes]_vars

\* ------------------------------------------------- vocabulary of claims
Last == hist[Len(hist)]
IsCall(e) == e.op \in {"denormalize", "memoized"}

\* The raw entity the store holds for identifier i, as an attribute map.
inStore(i) == i \in Ids /\ isObject(store.ent[i])
raw(i) == heap[store.ent[i].v].f

\* The identifiers a raw attribute value names: one, or those of an array.
named(x) ==
  IF x.t = "id" THEN {x.v}
  ELSE IF isObject(x) THEN {heap[x.v].e[n].v : n \in DOMAIN heap[x.v].e}
  ELSE {}

\* The identifiers relation a of the raw entity i names (none when i is absent).
targets(i, a) == IF inStore(i) THEN named(raw(i)[a]) ELSE {}
Relations == {"p", "q", "l"}
allTargets(i) == UNION {targets(i, a) : a \in Relations}

\* The identifiers reachable from the set S through the schema graph.
RECURSIVE reachable(_, _)
reachable(S, n) ==
  IF n = 0 THEN S ELSE reachable(S \cup UNION {allTargets(i) : i \in S}, n - 1)
reach(S) == reachable(S, NumIds)

\* The identifier a top-level input of an Entity schema stands for (0: none).
rootOf(input) ==
  IF input.t = "id" THEN input.v
  ELSE IF isObject(input) THEN keyOf(getId(heap, input))
  ELSE 0

\* A call of the given mode on an entity: User schema, identifier or entity.
EntityCall(e, op) == e.op = op /\ e.schema = "User" /\ rootOf(e.input) \in Ids

\* The identifiers whose raw entity was updated by the operations m+1..n-1.
updatedBetween(m, n) == {hist[j].id : j \in {k \in (m + 1)..(n - 1) : IsUpdate(hist[k])}}

\* ---------------------------------------------------------------- claims

\* C1: memoized reference stability.  A memoized call rooted at an entity of
\* the store returns the very reference an earlier memoized call rooted at
\* the same entity returned, unless the raw entity of the root or of an entity
\* reachable from it was replaced between the two calls, whatever memoized
\* calls came in between.
C1_ReferenceStability ==
  LET n == Len(hist) IN
  (n > 0 /\ EntityCall(hist[n], "memoized") /\ inStore(rootOf(hist[n].input)))
    => \A m \in 1..(n - 1) :
         ( /\ EntityCall(hist[m], "memoized")
           /\ rootOf(hist[m].input) = rootOf(hist[n].input)
           /\ isObject(hist[m].result)
           /\ updatedBetween(m, n) \cap reach({rootOf(hist[n].input)}) = {} )
         => hist[n].result = hist[m].result

\* C2: stability under no change.  Two consecutive memoized calls on the same
\* entity, the store unchanged, return the same reference, whatever the cache
\* held before the first.
C2_StableUnderNoChange ==
  LET n == Len(hist) IN
  ( /\ n > 1
    /\ EntityCall(hist[n], "memoized") /\ EntityCall(hist[n - 1], "memoized")
    /\ rootOf(hist[n].input) = rootOf(hist[n - 1].input)
    /\ inStore(rootOf(hist[n].input)) )
    => hist[n].result = hist[n - 1].result

\* C3: targeted invalidation.  Memoized X, then only the raw entity of Y, a
\* relation of X, replaced, then memoized X again: the second result is a new
\* reference, every relation of X naming Y holds a new reference, and every
\* other relation of X from which Y cannot be reached holds the reference it
\* held in the first result.
C3_TargetedInvalidation ==
  LET n == Len(hist) IN
  ( /\ n > 2
    /\ EntityCall(hist[n], "memoized") /\ EntityCall(hist[n - 2], "memoized")
    /\ hist[n].input = hist[n - 2].input
    /\ inStore(rootOf(hist[n].input))
    /\ hist[n - 1].op = "replace"
    /\ hist[n - 1].id \in allTargets(rootOf(hist[n].input))
    /\ hist[n - 1].id # rootOf(hist[n].input) )
    => LET x == rootOf(hist[n].input)
           y == hist[n - 1].id
           r1 == hist[n - 2].result
           r2 == hist[n].result
       IN /\ isObject(r1) /\ isObject(r2)
          /\ r2 # r1
          /\ \A a \in Relations :
               /\ y \in targets(x, a) => heap[r2.v].f[a] # heap[r1.v].f[a]
               /\ y \notin reach(targets(x, a)) => heap[r2.v].f[a] = heap[r1.v].f[a]

\* C4: cycle identity, non-memoized.  When the raw entity a names b through
\* attribute x and b names a back through attribute y (b = a: a
\* self-reference), the result of denormalizing a holds at x an object whose
\* y is the result itself.
C4_CycleIdentity ==
  LET n == Len(hist) IN
  (n > 0 /\ EntityCall(hist[n], "denormalize") /\ inStore(rootOf(hist[n].input)))
    => LET a == rootOf(hist[n].input)
           r == hist[n].result
       IN \A b \in Ids : \A x, y \in {"p", "q"} :
            (inStore(b) /\ raw(a)[x] = IdV(b) /\ raw(b)[y] = IdV(a))
              => /\ isObject(r)
                 /\ isObject(heap[r.v].f[x])
                 /\ heap[heap[r.v].f[x].v].f[y] = r

\* C4 witness: entity 1 <-> entity 2 denormalized from 1, the cycle closed on
\* the result.
C4_Witness ==
  /\ Len(hist) > 0
  /\ EntityCall(Last, "denormalize") /\ Last.input = IdV(1)
  /\ inStore(1) /\ inStore(2) /\ raw(1)["p"] = IdV(2) /\ raw(2)["p"] = IdV(1)
  /\ isObject(Last.result)
  /\ isObject(heap[Last.result.v].f["p"])
  /\ heap[Last.result.v].f["p"] # Last.result
  /\ heap[heap[Last.result.v].f["p"].v].f["p"] = Last.result

\* C5: memoized cycle degradation.  Every reconstruction that re-enters an
\* entity still being reconstructed in the same call returns that entity's
\* bare identifier (no object, not null); and when the raw entity a names b
\* through x and b names a back through y, the memoized result for the root a,
\* with a and b reconstructed from their raw entities, holds at x an object
\* whose y is the identifier of a (for a self-reference, x holds it).
C5_MemoizedCycleDegradation ==
  LET n == Len(hist) IN
  (n > 0 /\ EntityCall(hist[n], "memoized"))
    => /\ \A c \in hist[n].cuts : c.id \in Ids /\ c.v = IdV(c.id)
       /\ inStore(rootOf(hist[n].input)) =>
            LET a == rootOf(hist[n].input)
                r == hist[n].result
            IN \A b \in Ids : \A x, y \in {"p", "q"} :
                 ( /\ inStore(b) /\ raw(a)[x] = IdV(b) /\ raw(b)[y] = IdV(a)
                   /\ {a, b} \subseteq hist[n].fromRaw )
                   => /\ isObject(r)
                      /\ [id |-> a, v |-> IdV(a)] \in hist[n].cuts
                      /\ IF b = a THEN heap[r.v].f[x] = IdV(a)
                         ELSE /\ isObject(heap[r.v].f[x])
                              /\ heap[heap[r.v].f[x].v].f[y] = IdV(a)

\* C5 witness: entity 1 <-> entity 2 denormalized from 1 in memoized mode, the
\* reconstruction of 2 re-entering 1.
C5_Witness ==
  /\ Len(hist) > 0
  /\ EntityCall(Last, "memoized") /\ Last.input = IdV(1)
  /\ inStore(1) /\ inStore(2) /\ raw(1)["p"] = IdV(2) /\ raw(2)["p"] = IdV(1)
  /\ [id |-> 1, v |-> IdV(1)] \in Last.cuts
  /\ isObject(Last.result)
  /\ isObject(heap[Last.result.v].f["p"])
  /\ heap[heap[Last.result.v].f["p"].v].f["p"] = IdV(1)

\* C6: termination on cycles.  No call, in either mode, exhausts the call
\* stack: the nesting of frames stays within the budget the bag and the
\* visitation set allow, whatever cycles the store holds.
C6_Termination == \A n \in DOMAIN hist : IsCall(hist[n]) => ~hist[n].over

\* C6 witness: an entity on a cycle denormalized to an object in non-memoized
\* mode and then in memoized mode.
C6_Witness ==
  /\ Len(hist) > 1
  /\ EntityCall(hist[1], "denormalize") /\ EntityCall(hist[2], "memoized")
  /\ hist[1].input = hist[2].input
  /\ rootOf(hist[1].input) \in reach(allTargets(rootOf(hist[1].input)))
  /\ isObject(hist[1].result) /\ isObject(hist[2].result)

\* C7: missing entity, non-memoized.  Where no raw entity exists for the
\* identifier, the value produced is the identifier (or value) passed in, at
\* top level and at a relation of a parent entity alike.
C7_MissingEntityLeftAsIs ==
  LET n == Len(hist) IN
  (n > 0 /\ EntityCall(hist[n], "denormalize"))
    => LET a == rootOf(hist[n].input)
           r == hist[n].result
       IN /\ ~inStore(a) => (r = hist[n].input /\ ~hist[n].err)
          /\ inStore(a) =>
               \A b \in Ids : \A x \in {"p", "q"} :
                 (raw(a)[x] = IdV(b) /\ ~inStore(b))
                   => (isObject(r) /\ heap[r.v].f[x] = IdV(b))

\* C8: missing entity, memoized.  Where no raw entity exists for the
\* identifier, the call returns null, raises no error and leaves the cache
\* as it was.
C8_MissingEntityMemoized ==
  [][ ( /\ Len(hist') = Len(hist) + 1
        /\ EntityCall(Last', "memoized")
        /\ ~inStore(rootOf(Last'.input)) )
      => (Last'.result = Null /\ ~Last'.err /\ cache' = cache) ]_vars

\* C9: identity fallback.  A call, in either mode, whose value is null or
\* undefined or whose schema is no object returns the value itself, raises
\* nothing, and leaves the cache, the bag and the visitation set untouched.
C9_IdentityFallback ==
  [][ ( /\ Len(hist') = Len(hist) + 1
        /\ IsCall(Last')
        /\ (Last'.input \in {Null, Undef} \/ Last'.schema = "None") )
      => ( /\ Last'.result = Last'.input
           /\ ~Last'.err /\ ~Last'.over
           /\ cache' = cache
           /\ Last'.bag = {} /\ Last'.visited = {} ) ]_vars

\* C9 witness: undefined passed through by a memoized call, after a
\* non-memoized call given a schema that is no object.
C9_Witness ==
  /\ Len(hist) > 1
  /\ hist[1].op = "denormalize" /\ hist[1].schema = "None"
  /\ hist[1].result = hist[1].input
  /\ hist[2].op = "memoized" /\ hist[2].input = Undef /\ hist[2].result = Undef

\* The objects of the store and of the caller's input: the raw entities, the
\* entity object passed in, and the arrays they hold.
withArrays(S) == S \cup {heap[r].f["l"].v : r \in {o \in S : isObject(heap[o].f["l"])}}
ownedOutside(input) ==
  withArrays({store.ent[i].v : i \in {j \in Ids : inStore(j)}}
               \cup (IF isObject(input) THEN {input.v} ELSE {}))

\* C10: read-only store and input.  No call, in either mode, changes the
\* store, a raw entity in it or the object the caller passed in.
C10_ReadOnlyStore ==
  [][ (Len(hist') = Len(hist) + 1 /\ IsCall(Last'))
      => ( /\ store' = store
           /\ \A r \in ownedOutside(Last'.input) : heap'[r] = heap[r] ) ]_vars

\* C10 witness: the entity object of the store passed in, and a result built
\* whose relation p was written (an object, where the raw entity holds an
\* identifier).
C10_Witness ==
  /\ Len(hist) > 0
  /\ Last.op = "denormalize" /\ Last.input = HeldEntity
  /\ inStore(1) /\ store.ent[1] = HeldEntity
  /\ raw(1)["p"].t = "id"
  /\ isObject(Last.result) /\ Last.result # HeldEntity
  /\ isObject(heap[Last.result.v].f["p"])

\* ------------------------------- vocabulary of the claims on collections
\* Structural equality of two values of the heap h, to the depth n.
RECURSIVE deepEqual(_, _, _, _)
deepEqual(h, x, y, n) ==
  IF ~isObject(x) \/ ~isObject(y) THEN x = y
  ELSE IF n = 0 \/ x = y THEN TRUE
  ELSE LET cx == h[x.v]
           cy == h[y.v]
       IN /\ cx.arr = cy.arr
          /\ Len(cx.e) = Len(cy.e)
          /\ \A i \in DOMAIN cx.e :
                i \in DOMAIN cy.e /\ deepEqual(h, cx.e[i], cy.e[i], n - 1)
          /\ \A a \in Attrs : deepEqual(h, cx.f[a], cy.f[a], n - 1)

\* What a call of the given mode returns for (obj, schema) on the store as it
\* is now, with the cache as it is now: the value and the state it leaves.
callNow(op, obj, schema) ==
  IF op = "memoized"
  THEN denormalizeMemoized(obj, store, schema, CallState(heap, cache), DepthBudget)
  ELSE denormalize(obj, store, schema, CallState(heap, cache), DepthBudget)

\* The value x equals, structurally, what a call of mode op returns now for
\* (obj, schema).
isReconstruction(x, op, obj, schema) ==
  LET r == callNow(op, obj, schema)
  IN ~thrown(r.s) /\ deepEqual(r.s.heap, x, r.v, DepthBudget)

\* The last operation is a call that returned.
Returned == Len(hist) > 0 /\ IsCall(Last) /\ ~Last.err /\ ~Last.over

\* C11: array shape preservation.  A call, in either mode, on an array of
\* identifiers with the array-of schema returns an array of the same length
\* whose element i is the reconstruction of element i of the input with the
\* element schema.
C11_ArrayShape ==
  (Len(hist) > 0 /\ IsCall(Last) /\ Last.schema = "UserList"
     /\ isObject(Last.input) /\ heap[Last.input.v].arr)
    => LET items == heap[Last.input.v].e
           r == Last.result
       IN /\ Returned
          /\ isObject(r) /\ heap[r.v].arr
          /\ Len(heap[r.v].e) = Len(items)
          /\ \A i \in DOMAIN items :
                isReconstruction(heap[r.v].e[i], Last.op, items[i], "User")

\* C11 witness: the array [3, 2, 2] denormalized in non-memoized and then in
\* memoized mode, each result holding the objects of 3, 2 and 2 in that order.
C11_Witness ==
  /\ Len(hist) = 2
  /\ hist[1].op = "denormalize" /\ hist[2].op = "memoized"
  /\ \A n \in {1, 2} :
        /\ hist[n].input = ArrayInput /\ hist[n].schema = "UserList"
        /\ isObject(hist[n].result) /\ hist[n].result # ArrayInput
        /\ Len(heap[hist[n].result.v].e) = 3
        /\ \A i \in 1..3 :
              /\ isObject(heap[hist[n].result.v].e[i])
              /\ heap[heap[hist[n].result.v].e[i].v].f["id"] = heap[ArrayInput.v].e[i]

\* The shape C12 states for the last call when it is of mode op: a plain
\* mapping with the key set of the input, each value the reconstruction of
\* the input's value.
mapShape(op) ==
  (Len(hist) > 0 /\ Last.op = op /\ Last.schema = "UserValues"
     /\ isObject(Last.input) /\ ~heap[Last.input.v].arr)
    => LET items == heap[Last.input.v].f
           r == Last.result
       IN /\ Returned
          /\ isObject(r) /\ ~heap[r.v].arr
          /\ \A a \in Attrs : isUndefined(heap[r.v].f[a]) <=> isUndefined(items[a])
          /\ \A a \in Attrs :
                ~isUndefined(items[a])
                  => isReconstruction(heap[r.v].f[a], op, items[a], "User")

\* C12: map-of shape preservation.  A call, through either entry point, on a
\* plain mapping with the values-of schema returns a plain mapping with the
\* same key set, each value being the reconstruction of the input's value
\* with the element schema.
C12_MapShape == mapShape("denormalize") /\ mapShape("memoized")

\* The discriminant a value carries (undefined: none).
discriminantOf(x) == IF isObject(x) THEN heap[x.v].f["schema"] ELSE Undef

\* C13: union pass-through, non-memoized.  A non-memoized call with the union
\* schema on a value that carries no discriminant, or one the union does not
\* define, returns the value itself and raises no error; on a value whose
\* discriminant names the User schema it returns the non-memoized
\* reconstruction of the entity of the value's id.
C13_UnionPassThrough ==
  (Len(hist) > 0 /\ Last.op = "denormalize" /\ Last.schema = "UserUnion"
     /\ Last.input.t \notin {"null", "undef"})
    => IF discriminantOf(Last.input) = DiscUsers
       THEN /\ Returned
            /\ isObject(Last.result) /\ Last.result # Last.input
            /\ isReconstruction(Last.result, "denormalize",
                                heap[Last.input.v].f["id"], "User")
       ELSE Returned /\ Last.result = Last.input

\* C13 witness: a value without discriminant and one of an unknown schema
\* passed through, then a value of schema 'users' reconstructed as entity 2.
C13_Witness ==
  /\ Len(hist) = 3
  /\ \A n \in 1..3 : hist[n].op = "denormalize" /\ hist[n].schema = "UserUnion"
  /\ hist[1].input = BareInput /\ hist[1].result = BareInput
  /\ hist[2].input = GhostInput /\ hist[2].result = GhostInput
  /\ hist[3].input = UnionInput /\ isObject(hist[3].result)
  /\ hist[3].result # UnionInput
  /\ heap[hist[3].result.v].f["id"] = IdV(2)
  /\ isUndefined(heap[hist[3].result.v].f["schema"])

\* C14: union fail-fast, memoized.  A memoized call with the union schema on
\* a value that is not null and has no schema key ends in the Error of the
\* test for that key, and returns no value.
C14_UnionFailFast ==
  (Len(hist) > 0 /\ Last.op = "memoized" /\ Last.schema = "UserUnion"
     /\ Last.input.t \notin {"null", "undef"}
     /\ isUndefined(discriminantOf(Last.input)))
    => Last.err /\ Last.error = "Error" /\ isUndefined(Last.result)

\* C14 witness: the value { id: 2 } and then the bare identifier 2, both
\* refused in memoized mode.
C14_Witness ==
  /\ Len(hist) = 2
  /\ \A n \in 1..2 : hist[n].op = "memoized" /\ hist[n].schema = "UserUnion"
                       /\ hist[n].err /\ hist[n].error = "Error"
  /\ hist[1].input = BareInput /\ hist[2].input = IdV(2)

\* The last call was handed what the non-memoized call before it returned,
\* with the same schema, a schema that is no Entity.
Redenormalized ==
  /\ Len(hist) > 1
  /\ Last.op = "denormalize" /\ hist[Len(hist) - 1].op = "denormalize"
  /\ ~hist[Len(hist) - 1].err /\ ~hist[Len(hist) - 1].over
  /\ Last.schema = hist[Len(hist) - 1].schema
  /\ Last.schema \in {"UserList", "UserValues", "UserUnion", "Plain"}
  /\ Last.input = hist[Len(hist) - 1].result
  /\ isObject(Last.input)

\* C15: idempotence of non-memoized denormalize.  For a schema that is no
\* Entity, denormalizing what a non-memoized call returned, with the same
\* schema and store, returns a value structurally equal to it.
C15_Idempotence ==
  Redenormalized
    => Returned /\ deepEqual(heap, Last.result, Last.input, DepthBudget)

\* C15 witness: the plain object { p: 2, l: [3, 2, 2] } denormalized, and the
\* result, whose p and l hold objects, denormalized again into a new object.
C15_Witness ==
  /\ Redenormalized /\ Returned
  /\ Last.schema = "Plain"
  /\ hist[Len(hist) - 1].input = PlainInput
  /\ Last.result # Last.input
  /\ isObject(heap[Last.input.v].f["p"])
  /\ isObject(heap[Last.result.v].f["p"])
  /\ heap[Last.result.v].f["p"] # heap[Last.input.v].f["p"]
  /\ isObject(heap[Last.result.v].f["l"])
  /\ Len(heap[heap[Last.result.v].f["l"].v].e) = 3

\* The objects a value holds: the cells reachable from the cells S of the
\* heap h in at most n steps.
refsOf(h, c) ==
  {h[c].e[i].v : i \in {j \in DOMAIN h[c].e : isObject(h[c].e[j])}}
    \cup {h[c].f[a].v : a \in {b \in Attrs : isObject(h[c].f[b])}}

RECURSIVE cellsFrom(_, _, _)
cellsFrom(h, S, n) ==
  IF n = 0 THEN S
  ELSE LET T == S \cup UNION {refsOf(h, c) : c \in S}
       IN IF T = S THEN S ELSE cellsFrom(h, T, n - 1)

cellsOf(h, x) == IF isObject(x) THEN cellsFrom(h, {x.v}, Len(h)) ELSE {}

\* A non-memoized call with a schema that is an object is taken and returns.
TraversalStep ==
  /\ Len(hist') = Len(hist) + 1
  /\ Last'.op = "denormalize" /\ ~Last'.err /\ ~Last'.over
  /\ SchemaKind(Last'.schema) # "nonobject"

\* The call is one the union schema passes through: its value carries no
\* discriminant the union defines.
PassedThrough(e) ==
  e.schema = "UserUnion"
    /\ (~isObject(e.input) \/ heap[e.input.v].f["schema"] # DiscUsers)

\* C16 as stated: every object of the result of a non-memoized call is new:
\* no object that existed before the call (of the store, of the input, of an
\* earlier result) is part of it.
C16_FreshObjects ==
  [][ TraversalStep
        => cellsOf(heap', Last'.result) \cap DOMAIN heap = {} ]_vars

\* C16, amended: every object of the result of a non-memoized call is new,
\* except that a value the union schema passes through is the input itself.
C16_FreshExceptPassThrough ==
  [][ TraversalStep
        => IF PassedThrough(Last') THEN Last'.result = Last'.input
           ELSE cellsOf(heap', Last'.result) \cap DOMAIN heap = {} ]_vars

\* C16 witness: the plain object { p: 2, l: [3, 2, 2] } denormalized twice;
\* the two results, their p and their l are different objects, none of them
\* the input's or the store's.
C16_Witness ==
  /\ Len(hist) = 2
  /\ \A n \in 1..2 : /\ hist[n].op = "denormalize" /\ hist[n].input = PlainInput
                       /\ hist[n].schema = "Plain" /\ isObject(hist[n].result)
                       /\ isObject(heap[hist[n].result.v].f["p"])
                       /\ isObject(heap[hist[n].result.v].f["l"])
                       /\ heap[hist[n].result.v].f["l"] # ArrayInput
                       /\ heap[hist[n].result.v].f["p"] # store.ent[2]
  /\ hist[1].result # hist[2].result
  /\ heap[hist[1].result.v].f["p"] # heap[hist[2].result.v].f["p"]
  /\ heap[hist[1].result.v].f["l"] # heap[hist[2].result.v].f["l"]

\* What a memoized call returns for (obj, schema) on the store as it is now
\* when the cache is empty.
fromEmptyCache(obj, schema) ==
  denormalizeMemoized(obj, store, schema,
                      CallState(heap, [i \in Ids |-> NoCell]), DepthBudget)

\* C17: memoized results are never stale.  What a memoized call returns
\* equals, structurally, what the same call returns on the same store from an
\* empty cache, whatever calls and store updates came before.
C17_NeverStale ==
  (Returned /\ Last.op = "memoized")
    => LET r == fromEmptyCache(Last.input, Last.schema)
       IN ~thrown(r.s) /\ deepEqual(r.s.heap, Last.result, r.v, DepthBudget)

\* Every entity a raw entity of the store names is in the store.
StoreComplete == \A i \in Ids : \A j \in allTargets(i) : inStore(j)

\* No raw entity of the store reaches itself through its relations.
StoreAcyclic == \A i \in Ids : i \notin reach(allTargets(i))

\* C18: equivalence of the two modes on acyclic data.  On an acyclic store
\* that holds every entity it names, what a memoized call with an Entity or
\* array-of schema returns equals, structurally, what the non-memoized call
\* returns for the same value, store and schema, whatever the cache held.
C18_ModesEquivalent ==
  (Returned /\ Last.op = "memoized" /\ Last.schema \in {"User", "UserList"}
     /\ StoreComplete /\ StoreAcyclic)
    => isReconstruction(Last.result, "denormalize", Last.input, Last.schema)

\* The entity objects of a value: its objects that carry an id.
entityCells(h, x) ==
  {c \in cellsOf(h, x) : ~h[c].arr /\ h[c].f["id"].t = "id"}

\* C19: bag single construction.  In one non-memoized call no entity has its
\* working copy made twice, the bag holds exactly the entities whose copy was
\* made, and all the objects of one entity in the result are one object.
C19_SingleConstruction ==
  (Len(hist) > 0 /\ EntityCall(Last, "denormalize"))
    => /\ \A i, j \in DOMAIN Last.built : Last.built[i] = Last.built[j] => i = j
       /\ Last.bag = {Last.built[i] : i \in DOMAIN Last.built}
       /\ Returned =>
            LET cells == entityCells(heap, Last.result)
            IN /\ \A c1, c2 \in cells : heap[c1].f["id"] = heap[c2].f["id"] => c1 = c2
               /\ \A c \in cells : heap[c].f["id"].v \in Last.bag

\* C19 witness: entity 1 of the store 1 -> [2, 3], 2 <-> 3 denormalized: four
\* working copies made, and the objects of 2 and 3 each met twice, as element
\* of the array and as relation of the other.
C19_Witness ==
  /\ Returned /\ EntityCall(Last, "denormalize") /\ Last.input = IdV(1)
  /\ Len(Last.built) = 4
  /\ isObject(Last.result) /\ isObject(heap[Last.result.v].f["l"])
  /\ LET l == heap[heap[Last.result.v].f["l"].v].e
     IN /\ Len(l) = 2
        /\ isObject(l[1]) /\ isObject(l[2]) /\ l[1] # l[2]
        /\ heap[l[1].v].f["p"] = l[2]
        /\ heap[l[2].v].f["p"] = l[1]

\* The value x is the object of entity j.
isObjectOf(x, j) == isObject(x) /\ ~heap[x.v].arr /\ heap[x.v].f["id"] = IdV(j)

\* C20: convergence of partial objects.  When a non-memoized call returns,
\* every entity object of the result holds, at each relation its raw entity
\* has and whose target is in the store, the object of the target and no
\* identifier: at p and q, and at every element of the array l.
C20_Convergence ==
  (Returned /\ EntityCall(Last, "denormalize"))
    => \A c \in entityCells(heap, Last.result) :
         LET k == heap[c].f["id"].v IN
         inStore(k) =>
           /\ \A a \in {"p", "q"} :
                 (raw(k)[a].t = "id" /\ inStore(raw(k)[a].v))
                   => isObjectOf(heap[c].f[a], raw(k)[a].v)
           /\ isObject(raw(k)["l"]) =>
                 /\ isObject(heap[c].f["l"]) /\ heap[heap[c].f["l"].v].arr
                 /\ LET ids == heap[raw(k)["l"].v].e
                        els == heap[heap[c].f["l"].v].e
                    IN /\ Len(els) = Len(ids)
                       /\ \A i \in DOMAIN ids :
                             inStore(ids[i].v)
                               => i \in DOMAIN els /\ isObjectOf(els[i], ids[i].v)

\* C20 witness: entity 2 of the store 1 <-> 2, 2 -> 3, 2 -> [4, 1]
\* denormalized: the object of 2 was handed to 1 as its p before the q and l
\* of 2 were written, and holds them when the call returns.
C20_Witness ==
  /\ Returned /\ EntityCall(Last, "denormalize") /\ Last.input = IdV(2)
  /\ inStore(1) /\ inStore(2) /\ inStore(3)
  /\ raw(2)["p"] = IdV(1) /\ raw(1)["p"] = IdV(2) /\ raw(2)["q"] = IdV(3)
  /\ isObject(Last.result)
  /\ LET r == heap[Last.result.v].f
     IN /\ isObjectOf(r["p"], 1)
        /\ heap[r["p"].v].f["p"] = Last.result
        /\ isObjectOf(r["q"], 3)
        /\ isObject(r["l"])
        /\ heap[r["l"].v].e[2] = r["p"]

\* ------------------------------------------- the steps of a reconstruction
\* The last operation is a memoized call that returned.
MemoizedReturned ==
  Len(hist) > 0 /\ Last.op = "memoized" /\ ~Last.err /\ ~Last.over

\* The reconstructions the last call ran to their return.
Reconstructions == {Last.log[n] : n \in DOMAIN Last.log}

elementsOf(seq) == {seq[n] : n \in DOMAIN seq}
isInjective(seq) == \A m, n \in DOMAIN seq : seq[m] = seq[n] => m = n

\* C21: in a memoized call that returns, the marks are at every moment the
\* entities whose reconstruction is in progress: once an entity is marked
\* the marks are the reconstructions on the stack, each once and this one
\* innermost; once it is unmarked they are the reconstructions that remain,
\* this one not among them; and when the call returns no mark is left.
C21_VisitationStack ==
  MemoizedReturned =>
    /\ Last.visited = {}
    /\ \A ev \in Reconstructions :
         /\ ev.marksIn = elementsOf(ev.stackIn)
         /\ isInjective(ev.stackIn)
         /\ ev.stackIn[Len(ev.stackIn)] = ev.id
         /\ ev.marksOut = elementsOf(ev.stackOut)
         /\ ev.id \notin ev.marksOut
         /\ ev.marksIn = ev.marksOut \cup {ev.id}

\* A call on a cycle returned: three reconstructions were in progress at
\* once, and one of them was reached again and cut.
C21_Witness ==
  /\ MemoizedReturned
  /\ Last.cuts # {}
  /\ \E ev \in Reconstructions : Len(ev.stackIn) >= 3
  /\ \E ev \in Reconstructions : ev.marksOut # {}

\* C22: within one memoized call that returns, no entity is reconstructed
\* and its cache cell written (line 259) more than once, along however many
\* paths the entity is reached.
C22_CacheWrittenOnce ==
  MemoizedReturned =>
    \A m, n \in DOMAIN Last.log : Last.log[m].id = Last.log[n].id => m = n

\* The relations whose reconstruction a reconstruction found different.
changedRelations(ev) == {a \in Attrs : ~isUndefined(ev.updates[a])}

\* C23: every memoized reconstruction that is not cut works on the object
\* its cache cell holds as denormalized; (a) when no relation's
\* reconstruction differs (!==) from that object's value, it returns that
\* very object and leaves the cell as it is; (b) otherwise it returns a new
\* object whose attributes are those of that object except the changed
\* relations, which hold their reconstructions, and that object is left as
\* it was; in both cases the cell holds the returned object as denormalized,
\* and so does the cache for the entity of the call when the call returns.
C23_CellUpdateRule ==
  MemoizedReturned =>
    /\ \A ev \in Reconstructions :
         /\ ev.current.denormalized = ev.reference
         /\ \A a \in changedRelations(ev) : ev.updates[a] # ev.referenceF[a]
         /\ (changedRelations(ev) = {}) =>
              /\ ev.result = ev.reference
              /\ ev.cell = ev.current
         /\ (changedRelations(ev) # {}) =>
              /\ ev.isNew
              /\ ev.result # ev.reference
              /\ ev.resultF = [a \in Attrs |->
                                 IF a \in changedRelations(ev)
                                 THEN ev.updates[a] ELSE ev.referenceF[a]]
              /\ heap[ev.result.v].f = ev.resultF
         /\ heap[ev.reference.v].f = ev.referenceF
         /\ ev.cell.denormalized = ev.result
         /\ ev.cell.entity = ev.current.entity
    /\ Last.log # <<>> /\ EntityCall(Last, "memoized") =>
         LET ev == Last.log[Len(Last.log)]
         IN ev.result = Last.result /\ cache[ev.id].denormalized = Last.result

\* A call returned in which one reconstruction found a relation changed
\* and another, working on an object cached by an earlier call, found none.
C23_Witness ==
  /\ MemoizedReturned
  /\ \E ev \in Reconstructions : changedRelations(ev) # {}
  /\ \E ev \in Reconstructions :
       changedRelations(ev) = {} /\ ev.reference # ev.entity

\* The cell a reconstruction makes for a raw entity it has no cell of.
seedCell(entity) == [has |-> TRUE, entity |-> entity, denormalized |-> entity]

\* C24: a memoized reconstruction that finds no cache cell for its entity
\* makes one that holds the raw entity both as entity and as denormalized,
\* and one that finds a cell keeps it; when the cell's entity is not (!==)
\* the raw entity the store holds, entity and denormalized are both reset
\* to that raw entity before a relation is processed, so that the raw
\* entity is the reference object, and otherwise the cell is left as found;
\* after every reconstruction that is not cut the cell's entity is the raw
\* entity the store holds for the identifier.
C24_CacheTracksRawEntity ==
  MemoizedReturned =>
    \A ev \in Reconstructions :
      /\ ev.entity = store.ent[ev.id]
      /\ ev.seeded = (IF ev.held.has THEN ev.held ELSE seedCell(ev.entity))
      /\ ev.start = (IF ev.seeded.entity # ev.entity
                     THEN seedCell(ev.entity) ELSE ev.seeded)
      /\ ev.reference = ev.start.denormalized
      /\ ev.cell.entity = ev.entity
      /\ cache[ev.id].has /\ cache[ev.id].entity = store.ent[ev.id]

\* A call returned in which one reconstruction made the cell of its entity
\* and another found a cell that held a raw entity since replaced.
C24_Witness ==
  /\ MemoizedReturned
  /\ \E ev \in Reconstructions : ~ev.held.has
  /\ \E ev \in Reconstructions :
       /\ ev.held.has /\ ev.held.entity # ev.entity
       /\ ev.held.denormalized # ev.held.entity
       /\ ev.reference = ev.entity

\* The attributes of the schema whose name begins with '_'.
PrivateNames == {"_r"}

\* C25: a memoized reconstruction never reconstructs a private attribute of
\* the schema: the object it returns holds there what the raw entity holds,
\* an identifier or nothing; and an attribute the reference object does not
\* have is reconstructed in neither mode: the object returned for an entity
\* does not have it either.
C25_PrivateSkipped ==
  /\ MemoizedReturned =>
       \A ev \in Reconstructions :
         /\ \A a \in PrivateNames :
              /\ isUndefined(ev.updates[a])
              /\ ev.resultF[a] = raw(ev.id)[a]
              /\ ev.resultF[a].t \in {"id", "undef"}
         /\ \A a \in Attrs :
              isUndefined(ev.referenceF[a])
                => isUndefined(ev.updates[a]) /\ isUndefined(ev.resultF[a])
  /\ (Returned /\ EntityCall(Last, "denormalize")) =>
       \A c \in entityCells(heap, Last.result) :
         LET k == heap[c].f["id"].v
         IN inStore(k) =>
              \A a \in Attrs : isUndefined(raw(k)[a]) => isUndefined(heap[c].f[a])

\* A memoized call returned that reconstructed an entity whose private
\* relation names an entity of the store, whose p was reconstructed and
\* which has no q.
C25_Witness ==
  /\ MemoizedReturned
  /\ \E ev \in Reconstructions :
       /\ ev.referenceF["_r"].t = "id" /\ inStore(ev.referenceF["_r"].v)
       /\ isObject(ev.updates["p"])
       /\ isUndefined(ev.referenceF["q"])

\* C26: memoized union with a matching discriminant.  A memoized call with
\* the union schema on a value whose schema key names the child schema
\* 'users' raises no error and returns what a memoized call returns for the
\* value's id with the User schema.
C26_UnionMemoizedMatching ==
  (Len(hist) > 0 /\ Last.op = "memoized" /\ Last.schema = "UserUnion"
     /\ isObject(Last.input) /\ discriminantOf(Last.input) = DiscUsers)
    => /\ Returned
       /\ isReconstruction(Last.result, "memoized",
                           heap[Last.input.v].f["id"], "User")

\* A call with the plain mapping as schema, on an object, is taken.
PlainStep ==
  /\ Len(hist') = Len(hist) + 1
  /\ IsCall(Last') /\ Last'.schema = "Plain" /\ isObject(Last'.input)

\* The last call returned an object other than its input that holds, at
\* every attribute the plain schema declares and the input has, the
\* reconstruction of the input's value with the attribute's schema, and at
\* every other attribute what the input holds.
PlainCopy ==
  /\ Returned /\ isObject(Last.result) /\ Last.result # Last.input
  /\ ~heap[Last.result.v].arr
  /\ LET in == heap[Last.input.v].f
         out == heap[Last.result.v].f
         declared == elementsOf(schemaKeys("Plain"))
     IN \A a \in Attrs :
          IF a \in declared /\ ~isUndefined(in[a])
          THEN /\ out[a] # in[a]
               /\ isReconstruction(out[a], "denormalize", in[a],
                                   attributeSchema("Plain", a))
          ELSE out[a] = in[a]

\* C27: plain-object schema.  A memoized call with a plain mapping as
\* schema returns the very object passed in, and allocates nothing and
\* leaves the cache as it was; the non-memoized call returns a new object,
\* leaves the input as it was, and the new object holds the reconstruction
\* of every attribute the schema declares and the input has.
C27_PlainSchema ==
  /\ []((Len(hist) > 0 /\ Last.op = "denormalize" /\ Last.schema = "Plain"
          /\ isObject(Last.input)) => PlainCopy)
  /\ [][ PlainStep
          => IF Last'.op = "memoized"
             THEN /\ ~Last'.err /\ ~Last'.over
                  /\ Last'.result = Last'.input
                  /\ cache' = cache /\ heap' = heap
             ELSE /\ Last'.result.v \notin DOMAIN heap
                  /\ heap'[Last'.input.v] = heap[Last'.input.v] ]_vars

\* The object { p: 2, l: [3, 2, 2] } passed with the plain schema in both
\* modes: the memoized call handed it back, the non-memoized call returned
\* another object whose p is an object of entity 2.
C27_Witness ==
  /\ Len(hist) >= 2
  /\ \E m, n \in DOMAIN hist :
       /\ hist[m].op = "memoized" /\ hist[m].schema = "Plain"
       /\ hist[m].input = PlainInput /\ hist[m].result = PlainInput
       /\ hist[n].op = "denormalize" /\ hist[n].schema = "Plain"
       /\ hist[n].input = PlainInput /\ isObject(hist[n].result)
       /\ hist[n].result # PlainInput
       /\ isObjectOf(heap[hist[n].result.v].f["p"], 2)
       /\ isUndefined(heap[hist[n].result.v].f["q"])
       /\ heap[PlainInput.v].f["p"] = IdV(2)

====
